---- MODULE Spec2Model ----
(***************************************************************************)
(* Model of wix-api-integration-and-data-pipeline-task.py: the three       *)
(* fetchers (as functions of the provider's response), the wide-to-long    *)
(* reshape, the cross-join report builder and the driver main().           *)
(*                                                                         *)
(* Conventions.                                                            *)
(*  - A pandas DataFrame is [isNone, columns, rows]: columns is the        *)
(*    sequence of column names, rows the sequence of rows, each row a      *)
(*    function from column name to cell.  Python's None, where a           *)
(*    DataFrame is expected, is NoneDF.                                    *)
(*  - A numeric cell is Num(n) or NaN (JSON null / None / NaN).  Prices    *)
(*    are in hundredths, rates in hundredths, converted prices therefore   *)
(*    in ten-thousandths: 150.0 is 15000, 0.92 is 92, 138.0 is 1380000.    *)
(*  - A currency name or code is a Python str the program transforms: it   *)
(*    is a sequence of one-character strings.  Other strings are atoms.    *)
(***************************************************************************)
EXTENDS Integers, Sequences, FiniteSets, TLC

VARIABLES pc, symbols, stock_resp, stock_df, stock_df_long, ref_resp,
          stock_currency, avail_resp, available_currencies, fx_query, fx_resp,
          exchange_rates_df, df_stock_currency, file, trace, raised

vars == <<pc, symbols, stock_resp, stock_df, stock_df_long, ref_resp,
          stock_currency, avail_resp, available_currencies, fx_query, fx_resp,
          exchange_rates_df, df_stock_currency, file, trace, raised>>

(***************************************************************************)
(* Bounds of the model.                                                    *)
(***************************************************************************)
\* Longest "rates" object an FX response body carries.
MaxRates == 2
\* Longest -s/--symbols list given on the command line.
MaxSymbols == 1

(***************************************************************************)
(* Values.                                                                 *)
(***************************************************************************)
Num(n) == [null |-> FALSE, val |-> n]
NaN == [null |-> TRUE, val |-> 0]

\* pandas object/float multiplication: a null operand gives NaN (masked
\* arithmetic), otherwise the product.
Mul(a, b) == IF a.null \/ b.null THEN NaN ELSE Num(a.val * b.val)

NoneDF == [isNone |-> TRUE, columns |-> <<>>, rows |-> <<>>]
DataFrame(cols, rws) == [isNone |-> FALSE, columns |-> cols, rows |-> rws]

\* A Python str or None.
NoneStr == [isNone |-> TRUE, s |-> <<>>]
Str(s) == [isNone |-> FALSE, s |-> s]

SeqToSet(s) == {s[i] : i \in DOMAIN s}

EmptyDict == [k \in {} |-> NaN]

\* str.upper(), character by character.
UpperChar(c) ==
    CASE c = "u" -> "U"
      [] c = "s" -> "S"
      [] c = "d" -> "D"
      [] c = "e" -> "E"
      [] c = "r" -> "R"
      [] c = "g" -> "G"
      [] c = "b" -> "B"
      [] c = "p" -> "P"
      [] OTHER -> c
Upper(s) == [i \in DOMAIN s |-> UpperChar(s[i])]

(***************************************************************************)
(* pandas operations used by the program.                                  *)
(***************************************************************************)
\* pd.DataFrame([data]): one row, one column per key of the dict.  KeyOrder
\* is the order of the keys in the JSON body.
KeyOrder == <<"from", "symbol", "open", "high", "low", "close", "afterHours", "preMarket">>
FrameOfDict(data) ==
    DataFrame(SelectSeq(KeyOrder, LAMBDA k : k \in DOMAIN data), <<data>>)

\* df.rename(columns=mapping): mapping is the dict of old name to new name;
\* a column it does not name keeps its name.
NewName(mapping, c) == IF c \in DOMAIN mapping THEN mapping[c] ELSE c
RenameRow(r, mapping) ==
    [c \in {NewName(mapping, k) : k \in DOMAIN r} |->
        r[CHOOSE k \in DOMAIN r : NewName(mapping, k) = c]]
Rename(df, mapping) ==
    DataFrame([i \in DOMAIN df.columns |-> NewName(mapping, df.columns[i])],
              [i \in DOMAIN df.rows |-> RenameRow(df.rows[i], mapping)])
\* {"afterHours": "after_hours", "preMarket": "pre_market"}
RenamePriceCol == [afterHours |-> "after_hours", preMarket |-> "pre_market"]
\* {"symbol": "ticker", "from": "date"}
RenameIdCol == [symbol |-> "ticker", from |-> "date"]

\* df.melt(id_vars, value_vars, var_name="price_type", value_name="price"):
\* for each value column in turn, one row per row of df.
MeltRow(r, id_vars, v) ==
    [k \in SeqToSet(id_vars) \cup {"price_type", "price"} |->
        IF k = "price_type" THEN v ELSE IF k = "price" THEN r[v] ELSE r[k]]
Melt(df, id_vars, value_vars) ==
    LET n == Len(df.rows)
    IN  DataFrame(id_vars \o <<"price_type", "price">>,
                  [i \in 1..(Len(value_vars) * n) |->
                      MeltRow(df.rows[((i - 1) % n) + 1], id_vars,
                              value_vars[((i - 1) \div n) + 1])])

(***************************************************************************)
(* create_price_types_df (the Reshaper).                                   *)
(***************************************************************************)
price_columns == <<"open", "high", "low", "close", "after_hours", "pre_market">>

create_price_types_df(df) ==
    IF df.isNone THEN NoneDF            \* None.rename: caught, returns None
    ELSE
    LET renamed == Rename(df, RenamePriceCol)
        available_columns ==
            SelectSeq(price_columns, LAMBDA col : col \in SeqToSet(renamed.columns))
    IN  IF available_columns = <<>>
        THEN DataFrame(<<"ticker", "date", "price_type", "price">>, <<>>)
        ELSE IF ~({"symbol", "from"} \subseteq SeqToSet(renamed.columns))
        THEN NoneDF                     \* melt raises KeyError: caught, returns None
        ELSE Rename(Melt(renamed, <<"symbol", "from">>, available_columns),
                    RenameIdCol)

(***************************************************************************)
(* fetch_stock_data (the Price Fetcher), as a function of what the stock   *)
(* provider answers.  resp.kind: "network_error" (requests.get or          *)
(* raise_for_status raises RequestException), "invalid_json"               *)
(* (response.json() raises ValueError), "json" (a body was parsed;         *)
(* resp.isdict tells whether it is an object, resp.data holds its keys).   *)
(***************************************************************************)
fetch_stock_data(resp) ==
    IF resp.kind = "json"
    THEN IF resp.isdict /\ "open" \in DOMAIN resp.data /\ "close" \in DOMAIN resp.data
         THEN FrameOfDict(resp.data)
         ELSE NoneDF                    \* warning logged, falls to "return None"
    ELSE NoneDF                         \* both except clauses fall to "return None"

(***************************************************************************)
(* fetch_currency_name (the Currency Resolver).  A call's result is        *)
(* [exc, ret]: the exception it raises ("" when it returns) and the value  *)
(* it returns.  fetch_currency_name_try is the body of the try block,      *)
(* fetch_currency_name the function with its "except Exception" clause.    *)
(***************************************************************************)
Return(v) == [exc |-> "", ret |-> v]
Raise(e) == [exc |-> e, ret |-> NoneStr]

fetch_currency_name_try(resp) ==
    IF resp.raises THEN Raise("RequestException")
    ELSE IF resp.status = 200
    THEN IF ~resp.json_ok THEN Raise("JSONDecodeError")
         ELSE IF resp.has_results /\ resp.has_currency_name
         THEN Return(Str(resp.currency_name))
         ELSE Raise("ValueError")
    ELSE Return(Str(<<>>))

fetch_currency_name(resp) ==
    LET r == fetch_currency_name_try(resp)
    IN  IF r.exc # "" THEN Return(NoneStr) ELSE r

(***************************************************************************)
(* fetch_latest_currency_rates (the Rate Fetcher).  RatesQuery is the url  *)
(* it builds: symbols is the comma-joined list, absent when the list is    *)
(* empty.  resp.rates is the body's "rates" object as the sequence of its  *)
(* (code, rate) items.                                                     *)
(***************************************************************************)
RatesQuery(base_currency, syms, date) ==
    [date |-> date, base |-> base_currency,
     has_symbols |-> syms # <<>>, symbols |-> syms]

RatesFrame(rates) ==
    DataFrame(<<"currency", "exchange_rate">>,
              [i \in DOMAIN rates |->
                  [currency |-> rates[i][1], exchange_rate |-> rates[i][2]]])

\* fetch_latest_currency_rates keeping the rates of the requested symbols
\* only (a filter of its own on the body).
fetch_latest_currency_rates_Filtered(base_currency, syms, date, resp) ==
    IF resp.raises THEN NoneDF
    ELSE IF resp.status = 200
    THEN IF ~resp.json_ok THEN NoneDF
         ELSE RatesFrame(SelectSeq(IF resp.has_rates THEN resp.rates ELSE <<>>,
                                   LAMBDA it : syms = <<>> \/ it[1] \in SeqToSet(syms)))
    ELSE DataFrame(<<"currency", "exchange_rate">>, <<>>)

fetch_latest_currency_rates(base_currency, syms, date, resp) ==
    IF resp.raises THEN NoneDF
    ELSE IF resp.status = 200
    THEN IF ~resp.json_ok THEN NoneDF
         ELSE RatesFrame(IF resp.has_rates THEN resp.rates ELSE <<>>)
    ELSE DataFrame(<<"currency", "exchange_rate">>, <<>>)

(***************************************************************************)
(* fetch_available_currencies.                                             *)
(***************************************************************************)
fetch_available_currencies(resp) ==
    IF resp.raises THEN NoneDF
    ELSE IF resp.status = 200
    THEN IF ~resp.json_ok THEN NoneDF
         ELSE DataFrame(<<"Currency Code", "Currency Name">>,
                        [i \in DOMAIN resp.body |->
                            [k \in {"Currency Code", "Currency Name"} |->
                                IF k = "Currency Code" THEN resp.body[i][1]
                                ELSE resp.body[i][2]]])
    ELSE DataFrame(<<"Currency Code", "Currency Name">>, <<>>)

(***************************************************************************)
(* create_stock_currency_report (the Report Builder).                      *)
(***************************************************************************)
\* df[col] = scalar, in place: the column is added when absent.
SetColumn(df, col, v) ==
    DataFrame(IF col \in SeqToSet(df.columns) THEN df.columns
              ELSE Append(df.columns, col),
              [i \in DOMAIN df.rows |->
                  [k \in DOMAIN df.rows[i] \cup {col} |->
                      IF k = col THEN v ELSE df.rows[i][k]]])

\* CrossMerge joining row i of left with row i of right (a merge on the index
\* in place of how="cross").
CrossMerge_OnIndex(left, right) ==
    DataFrame(left.columns \o right.columns,
              [i \in DOMAIN left.rows \cap DOMAIN right.rows |->
                  left.rows[i] @@ right.rows[i]])

\* left.merge(right, how="cross"): every row of left with every row of
\* right, left-major.  (The frames of this program share no column name.)
CrossMerge(left, right) ==
    LET m == Len(right.rows)
    IN  DataFrame(left.columns \o right.columns,
                  [i \in 1..(Len(left.rows) * m) |->
                      left.rows[((i - 1) \div m) + 1] @@ right.rows[((i - 1) % m) + 1]])

\* merged["currency_price"] = merged["price"] * merged["exchange_rate"]
WithCurrencyPrice(df) ==
    DataFrame(IF "currency_price" \in SeqToSet(df.columns) THEN df.columns
              ELSE Append(df.columns, "currency_price"),
              [i \in DOMAIN df.rows |->
                  [k \in DOMAIN df.rows[i] \cup {"currency_price"} |->
                      IF k = "currency_price"
                      THEN Mul(df.rows[i]["price"], df.rows[i]["exchange_rate"])
                      ELSE df.rows[i][k]]])

\* df[columns]
SelectColumns(df, cols) ==
    DataFrame(cols, [i \in DOMAIN df.rows |-> [k \in SeqToSet(cols) |-> df.rows[i][k]]])

final_columns ==
    <<"date", "ticker", "price_type", "ticker_currency", "price", "currency",
      "exchange_rate", "currency_price">>

\* The merge and what follows it, on the frame already stamped.
MergeAndPrice(stamped, exchange_rates) ==
    IF exchange_rates.isNone THEN NoneDF            \* merge raises TypeError
    ELSE
    LET merged == CrossMerge(stamped, exchange_rates)
    IN  IF ~({"price", "exchange_rate"} \subseteq SeqToSet(merged.columns))
        THEN NoneDF                                 \* KeyError
        ELSE IF ~(SeqToSet(final_columns) \subseteq
                     SeqToSet(merged.columns) \cup {"currency_price"})
        THEN NoneDF                                 \* KeyError
        ELSE SelectColumns(WithCurrencyPrice(merged), final_columns)

\* create_stock_currency_report stamping stock_currency as given, without
\* .upper().
create_stock_currency_report_NoUpper(stock_long, exchange_rates, currency) ==
    IF currency.isNone \/ stock_long.isNone
    THEN [ret |-> NoneDF, stock_df_long |-> stock_long]
    ELSE LET stamped == SetColumn(stock_long, "ticker_currency", currency.s)
         IN  [ret |-> MergeAndPrice(stamped, exchange_rates),
              stock_df_long |-> stamped]

\* The result is [ret, stock_df_long]: the value returned and the state in
\* which the call leaves the frame passed as stock_df_long, which line 249
\* assigns to in place.  Every exception is caught and turned into None.
create_stock_currency_report(stock_long, exchange_rates, currency) ==
    IF currency.isNone \/ stock_long.isNone
    THEN [ret |-> NoneDF, stock_df_long |-> stock_long]
    ELSE LET stamped == SetColumn(stock_long, "ticker_currency", Upper(currency.s))
         IN  [ret |-> MergeAndPrice(stamped, exchange_rates),
              stock_df_long |-> stamped]

(***************************************************************************)
(* DataFrame.to_csv(path, index=False): a header line and one line per     *)
(* row, the cells in column order.  Called on None it raises               *)
(* AttributeError.                                                         *)
(***************************************************************************)
NoFile == [exists |-> FALSE, header |-> <<>>, lines |-> <<>>]

to_csv(df) ==
    IF df.isNone THEN [exc |-> "AttributeError", file |-> NoFile]
    ELSE [exc |-> "",
          file |-> [exists |-> TRUE, header |-> df.columns,
                    lines |-> [i \in DOMAIN df.rows |->
                                  [j \in DOMAIN df.columns |->
                                      df.rows[i][df.columns[j]]]]]]

(***************************************************************************)
(* The inputs: the command line and what the providers answer.             *)
(***************************************************************************)
args_ticker == "AAPL"
args_date == "2024-10-03"

EUR == <<"E", "U", "R">>
GBP == <<"G", "B", "P">>
USD == <<"U", "S", "D">>
Codes == {EUR, GBP, USD}

\* The -s/--symbols lists.
SymbolLists == UNION {[1..n -> Codes] : n \in 0..MaxSymbols}

\* Stock bodies: each price key is absent, null or a number; the keys
\* "symbol" and "from" may be missing.
PriceKeys == {"open", "high", "low", "close", "afterHours", "preMarket"}
FieldChoices == {"absent", "null", "number"}
Quote(k) ==
    CASE k \in {"open"} -> 15000
      [] k \in {"high"} -> 15500
      [] k \in {"low"} -> 14800
      [] k \in {"close"} -> 15200
      [] k \in {"afterHours", "after_hours"} -> 15250
      [] OTHER -> 14950
StockDict(ids, fs) ==
    [k \in ids \cup {p \in PriceKeys : fs[p] # "absent"} |->
        IF k = "symbol" THEN args_ticker
        ELSE IF k = "from" THEN args_date
        ELSE IF fs[k] = "null" THEN NaN ELSE Num(Quote(k))]
AllFieldStates == [PriceKeys -> FieldChoices]
AllStockDicts ==
    {StockDict(ids, fs) : ids \in SUBSET {"symbol", "from"}, fs \in AllFieldStates}
\* The bodies a run of main is given: open, close and afterHours vary.
MainFieldStates ==
    {fs \in AllFieldStates :
        /\ fs["high"] = "absent" /\ fs["low"] = "absent" /\ fs["preMarket"] = "absent"
        /\ fs["close"] # "null" /\ fs["afterHours"] # "null"}
MainStockDicts ==
    {StockDict(ids, fs) : ids \in {{"symbol", "from"}, {"from"}}, fs \in MainFieldStates}

StockResp(kind, isdict, data) == [kind |-> kind, isdict |-> isdict, data |-> data]
NoStockResp == StockResp("none", FALSE, EmptyDict)
StockResponses ==
    {StockResp("network_error", FALSE, EmptyDict),
     StockResp("invalid_json", FALSE, EmptyDict),
     StockResp("json", FALSE, EmptyDict)}
    \cup {StockResp("json", TRUE, d) : d \in MainStockDicts}

\* Reference bodies.
CurrencyNames == {<<"u", "s", "d">>, <<"U", "s", "d">>, USD, <<"e", "u", "r">>}
RefResp(raises, status, json_ok, has_results, has_currency_name, name) ==
    [raises |-> raises, status |-> status, json_ok |-> json_ok,
     has_results |-> has_results, has_currency_name |-> has_currency_name,
     currency_name |-> name]
NoRefResp == RefResp(FALSE, 0, FALSE, FALSE, FALSE, <<>>)
RefResponses ==
    {RefResp(TRUE, 0, FALSE, FALSE, FALSE, <<>>),
     RefResp(FALSE, 404, FALSE, FALSE, FALSE, <<>>),
     RefResp(FALSE, 200, FALSE, FALSE, FALSE, <<>>),
     RefResp(FALSE, 200, TRUE, FALSE, FALSE, <<>>),
     RefResp(FALSE, 200, TRUE, TRUE, FALSE, <<>>),
     RefResp(FALSE, 200, TRUE, TRUE, TRUE, <<>>)}
    \cup {RefResp(FALSE, 200, TRUE, TRUE, TRUE, n) : n \in CurrencyNames}

\* FX bodies: "rates" is an object, so its codes are distinct.
RateValues == {Num(92), Num(78)}
RateTables ==
    {t \in UNION {[1..n -> Codes \X RateValues] : n \in 0..MaxRates} :
        \A i, j \in DOMAIN t : t[i][1] = t[j][1] => i = j}
FxResp(raises, status, json_ok, has_rates, rates) ==
    [raises |-> raises, status |-> status, json_ok |-> json_ok,
     has_rates |-> has_rates, rates |-> rates]
NoFxResp == FxResp(FALSE, 0, FALSE, FALSE, <<>>)
FxResponses ==
    {FxResp(TRUE, 0, FALSE, FALSE, <<>>),
     FxResp(FALSE, 404, FALSE, FALSE, <<>>),
     FxResp(FALSE, 200, FALSE, FALSE, <<>>),
     FxResp(FALSE, 200, TRUE, FALSE, <<>>)}
    \cup {FxResp(FALSE, 200, TRUE, TRUE, t) : t \in RateTables}

\* Currency-list bodies.
AvailResp(raises, status, json_ok, body) ==
    [raises |-> raises, status |-> status, json_ok |-> json_ok, body |-> body]
NoAvailResp == AvailResp(FALSE, 0, FALSE, <<>>)
AvailResponses ==
    {AvailResp(TRUE, 0, FALSE, <<>>),
     AvailResp(FALSE, 404, FALSE, <<>>),
     AvailResp(FALSE, 200, FALSE, <<>>),
     AvailResp(FALSE, 200, TRUE, <<<<EUR, "Euro">>, <<USD, "United States Dollar">>>>)}

NoQuery == [date |-> "", base |-> NoneStr, has_symbols |-> FALSE, symbols |-> <<>>]

(***************************************************************************)
(* main (the Pipeline Driver).  pc is the statement main is at; trace is   *)
(* the sequence of the functions main has called; raised is the exception  *)
(* that left main ("" when none did).                                      *)
(***************************************************************************)
Init ==
    /\ pc = "fetch_stock"
    /\ symbols \in SymbolLists
    /\ stock_resp = NoStockResp
    /\ stock_df = NoneDF
    /\ stock_df_long = NoneDF
    /\ ref_resp = NoRefResp
    /\ stock_currency = NoneStr
    /\ avail_resp = NoAvailResp
    /\ available_currencies = NoneDF
    /\ fx_query = NoQuery
    /\ fx_resp = NoFxResp
    /\ exchange_rates_df = NoneDF
    /\ df_stock_currency = NoneDF
    /\ file = NoFile
    /\ trace = <<>>
    /\ raised = ""

\* Lines 282-285.
StepFetchStock ==
    /\ pc = "fetch_stock"
    /\ \E resp \in StockResponses :
        /\ stock_resp' = resp
        /\ stock_df' = fetch_stock_data(resp)
        /\ pc' = IF fetch_stock_data(resp).isNone THEN "done" ELSE "reshape"
    /\ trace' = Append(trace, "fetch_stock_data")
    /\ UNCHANGED <<symbols, stock_df_long, ref_resp, stock_currency, avail_resp,
                   available_currencies, fx_query, fx_resp, exchange_rates_df,
                   df_stock_currency, file, raised>>

\* Lines 287-288.
StepReshape ==
    /\ pc = "reshape"
    /\ stock_df_long' = create_price_types_df(stock_df)
    /\ pc' = "fetch_currency"
    /\ trace' = Append(trace, "create_price_types_df")
    /\ UNCHANGED <<symbols, stock_resp, stock_df, ref_resp, stock_currency,
                   avail_resp, available_currencies, fx_query, fx_resp,
                   exchange_rates_df, df_stock_currency, file, raised>>

\* What main does with a call that raised: "except ValueError" logs it and
\* main returns; any other exception leaves main.
Escapes(exc) == IF exc \in {"", "ValueError", "JSONDecodeError"} THEN "" ELSE exc

\* "if not stock_currency": None and the empty string are falsy.
Falsy(c) == c.isNone \/ c.s = <<>>

\* Lines 291-295.
StepFetchCurrency ==
    /\ pc = "fetch_currency"
    /\ \E resp \in RefResponses :
        LET r == fetch_currency_name(resp)
        IN  /\ ref_resp' = resp
            /\ stock_currency' = IF r.exc = "" THEN r.ret ELSE stock_currency
            /\ raised' = Escapes(r.exc)
            /\ pc' = IF r.exc # "" \/ Falsy(r.ret) THEN "done" ELSE "fetch_available"
    /\ trace' = Append(trace, "fetch_currency_name")
    /\ UNCHANGED <<symbols, stock_resp, stock_df, stock_df_long, avail_resp,
                   available_currencies, fx_query, fx_resp, exchange_rates_df,
                   df_stock_currency, file>>

\* Lines 298-300.
StepFetchAvailable ==
    /\ pc = "fetch_available"
    /\ \E resp \in AvailResponses :
        /\ avail_resp' = resp
        /\ available_currencies' = fetch_available_currencies(resp)
    /\ pc' = "fetch_rates"
    /\ trace' = Append(trace, "fetch_available_currencies")
    /\ UNCHANGED <<symbols, stock_resp, stock_df, stock_df_long, ref_resp,
                   stock_currency, fx_query, fx_resp, exchange_rates_df,
                   df_stock_currency, file, raised>>

\* StepFetchRates without the "return" of line 306: main goes on to the report
\* although the Rate Fetcher returned None.
StepFetchRates_NoAbort ==
    /\ pc = "fetch_rates"
    /\ fx_query' = RatesQuery(stock_currency, symbols, args_date)
    /\ \E resp \in FxResponses :
        /\ fx_resp' = resp
        /\ exchange_rates_df' =
            fetch_latest_currency_rates(stock_currency, symbols, args_date, resp)
    /\ pc' = "report"
    /\ trace' = Append(trace, "fetch_latest_currency_rates")
    /\ UNCHANGED <<symbols, stock_resp, stock_df, stock_df_long, ref_resp,
                   stock_currency, avail_resp, available_currencies,
                   df_stock_currency, file, raised>>

\* Lines 303-307.
StepFetchRates ==
    /\ pc = "fetch_rates"
    /\ fx_query' = RatesQuery(stock_currency, symbols, args_date)
    /\ \E resp \in FxResponses :
        LET df == fetch_latest_currency_rates(stock_currency, symbols, args_date, resp)
        IN  /\ fx_resp' = resp
            /\ exchange_rates_df' = df
            /\ pc' = IF df.isNone THEN "done" ELSE "report"
    /\ trace' = Append(trace, "fetch_latest_currency_rates")
    /\ UNCHANGED <<symbols, stock_resp, stock_df, stock_df_long, ref_resp,
                   stock_currency, avail_resp, available_currencies,
                   df_stock_currency, file, raised>>

\* Lines 310-311.
StepCreateReport ==
    /\ pc = "report"
    /\ LET r == create_stock_currency_report(stock_df_long, exchange_rates_df,
                                             stock_currency)
       IN  /\ df_stock_currency' = r.ret
           /\ stock_df_long' = r.stock_df_long
    /\ pc' = "save"
    /\ trace' = Append(trace, "create_stock_currency_report")
    /\ UNCHANGED <<symbols, stock_resp, stock_df, ref_resp, stock_currency,
                   avail_resp, available_currencies, fx_query, fx_resp,
                   exchange_rates_df, file, raised>>

\* Lines 314-320.
StepSave ==
    /\ pc = "save"
    /\ LET r == to_csv(df_stock_currency)
       IN  /\ file' = IF r.exc = "" THEN r.file ELSE file
           /\ raised' = Escapes(r.exc)
    /\ pc' = "done"
    /\ trace' = Append(trace, "to_csv")
    /\ UNCHANGED <<symbols, stock_resp, stock_df, stock_df_long, ref_resp,
                   stock_currency, avail_resp, available_currencies, fx_query,
                   fx_resp, exchange_rates_df, df_stock_currency>>

Next ==
    \/ StepFetchStock
    \/ StepReshape
    \/ StepFetchCurrency
    \/ StepFetchAvailable
    \/ StepFetchRates
    \/ StepCreateReport
    \/ StepSave

Spec == Init /\ [][Next]_vars

(***************************************************************************)
(* The Reshaper and the Report Builder on their own: every snapshot, and   *)
(* every long table with every rate table.                                 *)
(***************************************************************************)
FullTrace ==
    <<"fetch_stock_data", "create_price_types_df", "fetch_currency_name",
      "fetch_available_currencies", "fetch_latest_currency_rates",
      "create_stock_currency_report", "to_csv">>

InitReshaper ==
    /\ pc = "reshape"
    /\ symbols = <<>>
    /\ stock_resp \in {StockResp("json", TRUE, d) : d \in AllStockDicts}
    /\ stock_df = FrameOfDict(stock_resp.data)
    /\ stock_df_long = NoneDF
    /\ ref_resp = NoRefResp
    /\ stock_currency = NoneStr
    /\ avail_resp = NoAvailResp
    /\ available_currencies = NoneDF
    /\ fx_query = NoQuery
    /\ fx_resp = NoFxResp
    /\ exchange_rates_df = NoneDF
    /\ df_stock_currency = NoneDF
    /\ file = NoFile
    /\ trace = SubSeq(FullTrace, 1, 1)
    /\ raised = ""

SpecReshaper == InitReshaper /\ [][StepReshape]_vars

\* Long tables: each price type absent or present with a number; open and
\* close may also be present with a null.
LongFieldStates ==
    {fs \in [SeqToSet(price_columns) -> FieldChoices] :
        \A c \in {"high", "low", "after_hours", "pre_market"} : fs[c] # "null"}
LongFrame(fs) ==
    LET present == SelectSeq(price_columns, LAMBDA c : fs[c] # "absent")
    IN  DataFrame(<<"ticker", "date", "price_type", "price">>,
                  [i \in DOMAIN present |->
                      [ticker |-> args_ticker, date |-> args_date,
                       price_type |-> present[i],
                       price |-> IF fs[present[i]] = "null" THEN NaN
                                 ELSE Num(Quote(present[i]))]])

InitReport ==
    /\ pc = "report"
    /\ symbols = <<>>
    /\ stock_resp = NoStockResp
    /\ stock_df = NoneDF
    /\ stock_df_long \in {LongFrame(fs) : fs \in LongFieldStates}
    /\ ref_resp = NoRefResp
    /\ stock_currency \in {Str(<<"u", "s", "d">>), Str(USD)}
    /\ avail_resp = NoAvailResp
    /\ available_currencies = NoneDF
    /\ fx_query = NoQuery
    /\ fx_resp = NoFxResp
    /\ exchange_rates_df \in {RatesFrame(t) : t \in RateTables}
    /\ df_stock_currency = NoneDF
    /\ file = NoFile
    /\ trace = SubSeq(FullTrace, 1, 5)
    /\ raised = ""

NextReport ==
    \/ StepCreateReport
    \/ StepSave

SpecReport == InitReport /\ [][NextReport]_vars

(***************************************************************************)
(* Vocabulary of the properties.                                           *)
(***************************************************************************)
Called(f) == \E i \in DOMAIN trace : trace[i] = f
IsPrefix(a, b) == Len(a) <= Len(b) /\ \A i \in DOMAIN a : a[i] = b[i]

\* The outcomes of the providers, by what was answered.
StockHasOpenClose(r) ==
    r.kind = "json" /\ r.isdict /\ {"open", "close"} \subseteq DOMAIN r.data
StockNoData(r) == r.kind = "json" /\ ~StockHasOpenClose(r)
StockFetchError(r) == r.kind \in {"network_error", "invalid_json"}
RefNotFound(r) ==
    ~r.raises /\ r.status = 200 /\ r.json_ok /\ ~(r.has_results /\ r.has_currency_name)
RefUnavailable(r) == ~r.raises /\ r.status # 200
RefFailed(r) == r.raises \/ (r.status = 200 /\ ~r.json_ok)
FxError(r) == r.raises \/ (r.status = 200 /\ ~r.json_ok)
FxSuccess(r) == ~r.raises /\ r.status = 200 /\ r.json_ok
FxBodyRates(r) == IF r.has_rates THEN r.rates ELSE <<>>
FxEmpty(r) == ~r.raises /\ (r.status # 200 \/ (r.json_ok /\ FxBodyRates(r) = <<>>))

\* The cell of a line of the written file under a column of its header.
Cell(line, col) == line[CHOOSE j \in DOMAIN file.header : file.header[j] = col]

EmptyRates == DataFrame(<<"currency", "exchange_rate">>, <<>>)

(***************************************************************************)
(* C1.  No exception leaves main, whatever the providers answer.           *)
(***************************************************************************)
\* C1: in every state of every run of main, no exception has escaped main.
C1_NoExceptionEscapesMain == raised = ""

(***************************************************************************)
(* C2.  An abort short-circuits the run.                                   *)
(***************************************************************************)
\* C2: main calls its stages in the fixed order; once the Price Fetcher
\* yielded no-data or an error, or the Currency Resolver no currency, or the
\* Rate Fetcher an error, no later stage is ever called and no file is
\* written; a file is written only after all seven calls.
C2_AbortShortCircuits ==
    /\ IsPrefix(trace, FullTrace)
    /\ (Called("fetch_stock_data")
            /\ (StockNoData(stock_resp) \/ StockFetchError(stock_resp)))
        => (trace = SubSeq(FullTrace, 1, 1) /\ pc = "done" /\ ~file.exists)
    /\ (Called("fetch_currency_name")
            /\ (RefNotFound(ref_resp) \/ RefUnavailable(ref_resp) \/ RefFailed(ref_resp)))
        => (trace = SubSeq(FullTrace, 1, 3) /\ pc = "done" /\ ~file.exists)
    /\ (Called("fetch_latest_currency_rates") /\ FxError(fx_resp))
        => (trace = SubSeq(FullTrace, 1, 5) /\ pc = "done" /\ ~file.exists)
    /\ file.exists => trace = FullTrace

C2_Witness ==
    /\ pc = "done"
    /\ FxError(fx_resp)
    /\ trace = SubSeq(FullTrace, 1, 5)
    /\ ~stock_df_long.isNone

(***************************************************************************)
(* C3.  The Price Fetcher's outcomes.                                      *)
(***************************************************************************)
\* C3: fetch_stock_data returns a snapshot when the body has open and close,
\* and the value it returns for "no data" differs from every value it
\* returns for a fetch error.
C3_NoDataDistinctFromError ==
    Called("fetch_stock_data") =>
        /\ StockHasOpenClose(stock_resp) => ~stock_df.isNone
        /\ StockNoData(stock_resp) =>
            \A e \in StockResponses :
                StockFetchError(e) => stock_df # fetch_stock_data(e)

(***************************************************************************)
(* C4.  Currency not found.                                                *)
(***************************************************************************)
\* C4: on HTTP success without results.currency_name the call of
\* fetch_currency_name raises ValueError to main, an outcome different from
\* those of a non-success status and of a failed call; main then aborts.
C4_NotFoundIsRaised ==
    (Called("fetch_currency_name") /\ RefNotFound(ref_resp)) =>
        /\ fetch_currency_name(ref_resp).exc = "ValueError"
        /\ \A o \in RefResponses :
            (RefUnavailable(o) \/ RefFailed(o))
                => fetch_currency_name(o) # fetch_currency_name(ref_resp)
        /\ pc = "done"
        /\ ~file.exists

(***************************************************************************)
(* C5.  The Reshaper.                                                      *)
(***************************************************************************)
WideName(c) ==
    CASE c = "after_hours" -> "afterHours"
      [] c = "pre_market" -> "preMarket"
      [] OTHER -> c
NonNullTypes(src) ==
    SelectSeq(price_columns,
              LAMBDA c : WideName(c) \in DOMAIN src /\ ~src[WideName(c)].null)
PresentTypes(src) ==
    SelectSeq(price_columns, LAMBDA c : WideName(c) \in DOMAIN src)

\* C5: for a snapshot carrying symbol and from, create_price_types_df
\* returns one row per non-null price field, in the fixed order, each with
\* the field's value; with no price field present it returns an empty table.
C5_OneRowPerNonNullField ==
    (pc = "fetch_currency" /\ Called("create_price_types_df")) =>
        LET src == stock_df.rows[1]
            want == NonNullTypes(src)
        IN  /\ PresentTypes(src) = <<>> =>
                (~stock_df_long.isNone /\ stock_df_long.rows = <<>>)
            /\ {"symbol", "from"} \subseteq DOMAIN src =>
                /\ ~stock_df_long.isNone
                /\ Len(stock_df_long.rows) = Len(want)
                /\ \A i \in DOMAIN want :
                    /\ i \in DOMAIN stock_df_long.rows
                    /\ stock_df_long.rows[i]["price_type"] = want[i]
                    /\ stock_df_long.rows[i]["price"] = src[WideName(want[i])]

(***************************************************************************)
(* C6.  The Report Builder.                                                *)
(***************************************************************************)
AaplLong ==
    DataFrame(<<"ticker", "date", "price_type", "price">>,
              <<[ticker |-> "AAPL", date |-> "2024-10-03", price_type |-> "open",
                 price |-> Num(15000)],
                [ticker |-> "AAPL", date |-> "2024-10-03", price_type |-> "close",
                 price |-> Num(15200)]>>)
AaplRates == RatesFrame(<<<<EUR, Num(92)>>, <<GBP, Num(78)>>>>)
AaplReport ==
    <<<<"open", EUR, Num(1380000)>>, <<"open", GBP, Num(1170000)>>,
      <<"close", EUR, Num(1398400)>>, <<"close", GBP, Num(1185600)>>>>
IsAaplScenario ==
    /\ SelectColumns(stock_df_long, AaplLong.columns) = AaplLong
    /\ exchange_rates_df = AaplRates

\* C6: the report has one row per (long row, rate) pair and no other, long
\* row major: it carries the long row's ticker, date, price type and price,
\* the rate's currency and rate, and currency_price = price x rate (null
\* when the price is null); empty inputs give an empty report, not None;
\* the AAPL scenario gives its four rows.
C6_CrossProduct ==
    (pc \in {"save", "done"} /\ Called("create_stock_currency_report")) =>
        LET L == stock_df_long.rows
            R == exchange_rates_df.rows
            out == df_stock_currency
        IN  /\ ~out.isNone
            /\ out.columns = final_columns
            /\ Len(out.rows) = Len(L) * Len(R)
            /\ \A i \in DOMAIN L : \A j \in DOMAIN R :
                LET k == (i - 1) * Len(R) + j
                IN  /\ k \in DOMAIN out.rows
                    /\ out.rows[k]["ticker"] = L[i]["ticker"]
                    /\ out.rows[k]["date"] = L[i]["date"]
                    /\ out.rows[k]["price_type"] = L[i]["price_type"]
                    /\ out.rows[k]["price"] = L[i]["price"]
                    /\ out.rows[k]["currency"] = R[j]["currency"]
                    /\ out.rows[k]["exchange_rate"] = R[j]["exchange_rate"]
                    /\ out.rows[k]["currency_price"].null = L[i]["price"].null
                    /\ ~L[i]["price"].null =>
                        out.rows[k]["currency_price"].val
                            = L[i]["price"].val * R[j]["exchange_rate"].val
            /\ IsAaplScenario =>
                [i \in DOMAIN out.rows |->
                    <<out.rows[i]["price_type"], out.rows[i]["currency"],
                      out.rows[i]["currency_price"]>>] = AaplReport

C6_Witness ==
    /\ pc = "save"
    /\ IsAaplScenario
    /\ Len(df_stock_currency.rows) = 4

(***************************************************************************)
(* C7.  ticker_currency.                                                   *)
(***************************************************************************)
LowerToUpper ==
    {<<"u", "U">>, <<"s", "S">>, <<"d", "D">>, <<"e", "E">>, <<"r", "R">>,
     <<"g", "G">>, <<"b", "B">>, <<"p", "P">>}
IsUpperOf(u, s) ==
    /\ Len(u) = Len(s)
    /\ \A i \in DOMAIN s :
        IF \E q \in LowerToUpper : q[1] = s[i]
        THEN <<s[i], u[i]>> \in LowerToUpper
        ELSE u[i] = s[i]

\* C7: on every line of a written report ticker_currency is the upper-cased
\* currency name the reference provider answered in that run.
C7_TickerCurrencyStamped ==
    file.exists =>
        \A i \in DOMAIN file.lines :
            IsUpperOf(Cell(file.lines[i], "ticker_currency"), ref_resp.currency_name)

C7_Witness ==
    /\ file.exists
    /\ Len(file.lines) >= 4
    /\ ref_resp.currency_name = <<"U", "s", "d">>
    /\ \E i \in DOMAIN file.lines : Cell(file.lines[i], "currency") = USD
    /\ \E i \in DOMAIN file.lines : Cell(file.lines[i], "currency") # USD

(***************************************************************************)
(* C8.  An empty rate table is not fatal.                                  *)
(***************************************************************************)
\* C8: a run that obtained the snapshot and the currency and whose FX call
\* answered a non-success status, or a body with no rates, ends with an
\* empty rate table, no exception, and a written report of zero rows.
C8_EmptyRatesReachWrite ==
    (/\ pc = "done"
     /\ StockHasOpenClose(stock_resp)
     /\ ~Falsy(stock_currency)
     /\ Called("fetch_latest_currency_rates")
     /\ FxEmpty(fx_resp)) =>
        /\ exchange_rates_df = EmptyRates
        /\ raised = ""
        /\ trace = FullTrace
        /\ ~df_stock_currency.isNone
        /\ df_stock_currency.rows = <<>>
        /\ file.exists
        /\ file.lines = <<>>

(***************************************************************************)
(* C9.  The symbol filter.                                                 *)
(***************************************************************************)
RowCodes(df) == [i \in DOMAIN df.rows |-> df.rows[i]["currency"]]
OnePerCode(codes, S) ==
    /\ SeqToSet(codes) = S
    /\ \A i, j \in DOMAIN codes : codes[i] = codes[j] => i = j

\* C9 as stated: with a non-empty symbol list and a successful FX call the
\* rate table holds exactly the codes of the list, one entry each, whatever
\* the body.
C9_ExactlyTheSymbols ==
    (Called("fetch_latest_currency_rates") /\ symbols # <<>> /\ FxSuccess(fx_resp)) =>
        /\ ~exchange_rates_df.isNone
        /\ OnePerCode(RowCodes(exchange_rates_df), SeqToSet(symbols))

\* C9 amended: with a non-empty symbol list and a successful FX call the
\* query names that list, and the rate table holds exactly the items of the
\* body's "rates" object, in its order; so it holds exactly the codes of the
\* list whenever the body's rates are restricted to the list.
C9_TheRatesOfTheBody ==
    (Called("fetch_latest_currency_rates") /\ symbols # <<>> /\ FxSuccess(fx_resp)) =>
        LET body == FxBodyRates(fx_resp)
        IN  /\ fx_query.has_symbols /\ fx_query.symbols = symbols
            /\ ~exchange_rates_df.isNone
            /\ Len(exchange_rates_df.rows) = Len(body)
            /\ \A i \in DOMAIN body :
                /\ exchange_rates_df.rows[i]["currency"] = body[i][1]
                /\ exchange_rates_df.rows[i]["exchange_rate"] = body[i][2]
            /\ {body[i][1] : i \in DOMAIN body} = SeqToSet(symbols)
                => OnePerCode(RowCodes(exchange_rates_df), SeqToSet(symbols))

C9_Witness ==
    /\ Called("fetch_latest_currency_rates")
    /\ symbols = <<EUR>>
    /\ FxSuccess(fx_resp)
    /\ RowCodes(exchange_rates_df) = <<EUR>>

(***************************************************************************)
(* C10.  The stages leave their inputs alone.                              *)
(***************************************************************************)
\* C10: the call of create_price_types_df leaves the wide table unchanged,
\* and the call of create_stock_currency_report leaves the long table and
\* the rate table unchanged.
C10_InputsUnchanged ==
    [][/\ pc = "reshape" => stock_df' = stock_df
       /\ pc = "report" =>
            (stock_df_long' = stock_df_long /\ exchange_rates_df' = exchange_rates_df)]_vars

====
